---- MODULE Spec2Model ----
(***************************************************************************)
(* Model of "Predict (Regression)/CNN.py": the CNN regression module (its  *)
(* construction and the shape/dispatch logic of forward) and the three     *)
(* loops train, validate and test.                                         *)
(*                                                                         *)
(* Tensors are modelled by their shapes (sequences of dimensions), the     *)
(* trainable parameters of each sub-network by an update counter, and the  *)
(* .grad buffers by the set of batches whose gradient they hold.  Real     *)
(* numbers of the test loop are fixed-point integers in units of 10^-4.    *)
(***************************************************************************)
EXTENDS Integers, Sequences, FiniteSets, TLC

\* ---------------------------------------------------------------- bounds
MaxBatches == 2
MaxBatchSize == 2
MaxTestSamples == 2

\* ------------------------------------------------------------ vocabulary
BackboneNames == {"resnet18", "efficientnet_b0", "simple_cnn"}

ModelTypes == BackboneNames \cup {"vgg16"}

Subnets == {"feature_extractor", "reduce", "param_fc_2", "param_fc_3", "fc1", "fc2"}

None == << >>

NoModel == [ok |-> FALSE, err |-> "", model_type |-> "", use_extra_params |-> FALSE,
            feature_dim |-> 0, reduce_in |-> 0, fc1_in |-> 0, modules |-> {}]

Raise(e) == [ok |-> FALSE, err |-> e, shape |-> None, used |-> {}]

Return(shape, used) == [ok |-> TRUE, err |-> "", shape |-> shape, used |-> used]

NoOutput == Raise("")

\* ---------------------------------------------------------- CNN.__init__
\* fault: an unsupported name falls through to the resnet18 dimension
feature_dim_Mut(model_type) ==
    IF model_type = "resnet18" THEN 512
    ELSE IF model_type = "efficientnet_b0" THEN 1280
    ELSE IF model_type = "simple_cnn" THEN 64
    ELSE 512

feature_dim(model_type) ==
    IF model_type = "resnet18" THEN 512
    ELSE IF model_type = "efficientnet_b0" THEN 1280
    ELSE IF model_type = "simple_cnn" THEN 64
    ELSE 0

\* fault: only the width-2 encoder is created
Modules_Mut(use_extra_params) ==
    {"feature_extractor", "reduce", "fc1", "fc2"}
        \cup (IF use_extra_params THEN {"param_fc_2"} ELSE {})

Modules(use_extra_params) ==
    {"feature_extractor", "reduce", "fc1", "fc2"}
        \cup (IF use_extra_params THEN {"param_fc_2", "param_fc_3"} ELSE {})

CNN_init(model_type, use_extra_params) ==
    IF feature_dim(model_type) = 0
    THEN [NoModel EXCEPT !.err = "ValueError: Unsupported model type"]
    ELSE [ok |-> TRUE, err |-> "", model_type |-> model_type,
          use_extra_params |-> use_extra_params,
          feature_dim |-> feature_dim(model_type),
          reduce_in |-> feature_dim(model_type),
          fc1_in |-> IF use_extra_params THEN 128 + 64 ELSE 128,
          modules |-> Modules(use_extra_params)]

\* ----------------------------------------------------------- CNN.forward
\* nn.Linear(in, out) applied to a batch of shape <<B, d>>
Linear(shape, in, out) == IF shape[2] = in THEN <<shape[1], out>> ELSE None

\* tensor.squeeze(1): drop dimension 1 (0-based) when it is a singleton
squeeze1(shape) == IF Len(shape) >= 2 /\ shape[2] = 1
                   THEN <<shape[1]>> \o SubSeq(shape, 3, Len(shape))
                   ELSE shape

\* torch.cat([x, p], dim = 1)
cat1(x, p) == IF x[1] = p[1] THEN <<x[1], x[2] + p[2]>> ELSE None

\* fault: every width other than 2 is sent to the width-3 encoder
EncoderFor_Mut(width) ==
    IF width = 2 THEN "param_fc_2" ELSE "param_fc_3"

\* the width dispatch of forward: the encoder a width selects, "" for none
EncoderFor(width) ==
    IF width = 2 THEN "param_fc_2"
    ELSE IF width = 3 THEN "param_fc_3"
    ELSE ""

EncoderIn(enc) == IF enc = "param_fc_2" THEN 2 ELSE 3

\* param_fc_k: Linear(k, 16), ReLU, Linear(16, 64), ReLU
Encode(enc, extra) ==
    LET h == Linear(extra, EncoderIn(enc), 16)
    IN  IF h = None THEN None ELSE Linear(h, 16, 64)

\* fc1 then fc2 then squeeze(1)
RegressionHead(m, x, used) ==
    LET h == Linear(x, m.fc1_in, 64)
    IN  IF h = None THEN Raise("RuntimeError: shapes cannot be multiplied")
        ELSE Return(squeeze1(Linear(h, 64, 1)), used \cup {"fc1", "fc2"})

forward(m, B, extra_params) ==
    LET x0 == <<B, m.feature_dim>>
        x  == Linear(x0, m.reduce_in, 128)
        used == {"feature_extractor", "reduce"}
    IN  IF x = None THEN Raise("RuntimeError: shapes cannot be multiplied")
        ELSE IF m.use_extra_params
        THEN IF extra_params = None
             THEN Raise("ValueError: extra_params is required but not provided.")
             ELSE LET enc == EncoderFor(extra_params[2])
                  IN  IF enc = ""
                      THEN Raise("ValueError: error - extra_params shape")
                      ELSE IF enc \notin m.modules
                      THEN Raise("AttributeError")
                      ELSE LET p == Encode(enc, extra_params)
                           IN  IF p = None \/ cat1(x, p) = None
                               THEN Raise("RuntimeError: shapes cannot be multiplied")
                               ELSE RegressionHead(m, cat1(x, p), used \cup {enc})
        ELSE RegressionHead(m, x, used)

\* ------------------------------------------------------------ arithmetic
RECURSIVE GCD(_, _)
GCD(a, b) == IF b = 0 THEN a ELSE GCD(b, a % b)

\* the quotient a / b of two naturals (b > 0), as a fraction in lowest terms
Quot(a, b) == <<a \div GCD(a, b), b \div GCD(a, b)>>

NoResult == << >>

\* ----------------------------------------------------------------- state
VARIABLES
    model,        \* the constructed CNN (NoModel before construction)
    training,     \* nn.Module.training, set by model.train() / model.eval()
    grad_enabled, \* FALSE inside a torch.no_grad() block
    paramUpdates, \* per sub-network: optimizer updates of its parameters in this call
    gradSet,      \* sub-networks whose .grad is populated (not None)
    gradFrom,     \* per sub-network: the batches whose nonzero gradient .grad holds
    op,           \* the function being (or last) executed
    pc,           \* position inside it
    batch,        \* the batch delivered by the loader
    batchNo,      \* number of batches delivered in this call (0 = before the call)
    seen,         \* batches fully processed in this call, in order
    outputs,      \* result of model(inputs, extra_params)
    graph,        \* sub-networks in the autograd graph of outputs
    loss,         \* loss.item()
    total_loss,
    total,
    abs_sum,      \* sum of |label - output| over all_labels / all_outputs
    steps,        \* optimizer steps applied in this call
    lastApplied,  \* per sub-network: gradient origin applied by the last step
    result,       \* return value of the call
    error,        \* exception that ended the call ("" if none)
    target,       \* the target argument of test
    ref_keys,     \* the identifiers (column Image) of Earthquake.csv
    image_names,  \* the identifiers of the current test batch
    idx,          \* position of the inner loop in zip(image_names, predicted)
    predictions,  \* the rows collected for the output file
    y_true,
    y_pred,
    file,         \* the output file
    init_args,    \* history: the arguments CNN(...) was called with
    accepted,     \* history: auxiliary widths the model accepted in the direct calls
                  \* made since the last loop call
    sample_ids,   \* history: the identifiers test_loader delivered, in order
    pred_items    \* history: the values pred.item() of the rows, in order

vars == <<model, training, grad_enabled, paramUpdates, gradSet, gradFrom, op, pc,
          batch, batchNo, seen, outputs, graph, loss, total_loss, total, abs_sum,
          steps, lastApplied, result, error, target, ref_keys, image_names, idx,
          predictions, y_true, y_pred, file, init_args, accepted, sample_ids,
          pred_items>>

testVars == <<target, ref_keys, image_names, idx, predictions, y_true, y_pred, file,
              sample_ids, pred_items>>

trainLocals == <<paramUpdates, gradSet, gradFrom, seen, loss, total_loss, total, abs_sum,
                 steps, lastApplied>>

modelVars == <<model, training, grad_enabled, paramUpdates, gradSet, gradFrom>>

\* widths of the auxiliary vectors the loaders deliver
Widths == {2, 3, 4}

\* widths tried in direct calls of the model
ForwardWidths == {1, 2, 3, 4}

\* values of criterion(outputs, labels)
Losses == {0, 1, 2}

NoFile == [exists |-> FALSE, name |-> << >>, header |-> << >>, rows |-> << >>]

NoBatch == [size |-> 0, width |-> 0, loss |-> 0, abs_err |-> 0]

\* a (inputs, labels, extra_params) batch of train_loader; loss is the value the
\* criterion yields on it
TrainBatches == [size : 1..MaxBatchSize, width : Widths, loss : Losses, abs_err : {0}]

\* |label - output| of the samples of a validation batch
ValErrors == {0, 1}

\* a batch of val_loader whose samples all miss their label by e: the criterion
\* (mean squared error) yields e * e, and abs_err is the sum of |label - output|
ValBatches == {[size |-> n, width |-> w, loss |-> e * e, abs_err |-> e * n] :
                   n \in 1..MaxBatchSize, w \in Widths, e \in ValErrors}

NoGrad == [s \in Subnets |-> {}]

NoUpdates == [s \in Subnets |-> 0]

Rest == {"idle", "returned", "raised"}

Init ==
    /\ model = NoModel
    /\ training = TRUE
    /\ grad_enabled = TRUE
    /\ paramUpdates = NoUpdates
    /\ gradSet = {}
    /\ gradFrom = NoGrad
    /\ op = "none"
    /\ pc = "idle"
    /\ batch = NoBatch
    /\ batchNo = 0
    /\ seen = << >>
    /\ outputs = NoOutput
    /\ graph = {}
    /\ loss = 0
    /\ total_loss = 0
    /\ total = 0
    /\ abs_sum = 0
    /\ steps = 0
    /\ lastApplied = NoGrad
    /\ result = NoResult
    /\ error = ""
    /\ target = ""
    /\ ref_keys = {}
    /\ image_names = << >>
    /\ idx = 0
    /\ predictions = << >>
    /\ y_true = << >>
    /\ y_pred = << >>
    /\ file = NoFile
    /\ init_args = << >>
    /\ accepted = {}
    /\ sample_ids = << >>
    /\ pred_items = << >>

\* at the entry of a call, what the .grad buffers hold is from before the call
Stale(gf) == [s \in Subnets |-> IF gf[s] # {} THEN {0} ELSE {}]

\* --------------------------------------------------------- construction
Construct ==
    /\ pc = "idle" /\ op = "none"
    /\ \E model_type \in ModelTypes, use_extra_params \in BOOLEAN :
         LET m == CNN_init(model_type, use_extra_params)
         IN  /\ model' = (IF m.ok THEN m ELSE NoModel)
             /\ error' = m.err
             /\ init_args' = <<model_type, use_extra_params>>
             /\ pc' = (IF m.ok THEN "returned" ELSE "raised")
    /\ op' = "init"
    /\ UNCHANGED <<accepted, testVars, abs_sum, training, grad_enabled, paramUpdates,
                   gradSet, gradFrom, batch, batchNo, seen, outputs, graph, loss,
                   total_loss, total, steps, lastApplied, result>>

\* a direct call model(x, extra_params) on a batch of B images
Forward ==
    /\ pc \in Rest /\ model.ok
    /\ \E B \in 1..MaxBatchSize, w \in {0} \cup ForwardWidths :
         LET extra_params == IF w = 0 THEN None ELSE <<B, w>>
             out == forward(model, B, extra_params)
         IN  /\ batch' = [size |-> B, width |-> w, loss |-> 0, abs_err |-> 0]
             /\ outputs' = out
             /\ graph' = (IF grad_enabled THEN out.used ELSE {})
             /\ error' = out.err
             /\ accepted' = (IF out.ok /\ model.use_extra_params /\ w # 0
                              THEN accepted \cup {w} ELSE accepted)
             /\ pc' = (IF out.ok THEN "returned" ELSE "raised")
    /\ op' = "forward"
    /\ batchNo' = 0 /\ seen' = << >> /\ loss' = 0 /\ total_loss' = 0 /\ total' = 0
    /\ steps' = 0 /\ paramUpdates' = NoUpdates /\ result' = NoResult
    /\ gradFrom' = Stale(gradFrom)
    /\ abs_sum' = 0 /\ lastApplied' = NoGrad
    /\ UNCHANGED <<init_args, testVars, model, training, grad_enabled, gradSet>>

\* ----------------------------------------------------------------- train
\* optimizer.zero_grad(): every .grad becomes None (set_to_none, the default)
zero_grad(gs) == {}

\* loss.backward(): every sub-network in the graph receives the gradient of batch
\* b, added to what its .grad already holds; a zero loss gives a zero gradient
\* fault: the backbone is detached from the graph (frozen)
backward_Mut(gf, g, b, l) ==
    [s \in Subnets |-> IF s \in g \ {"feature_extractor"} /\ l # 0
                       THEN gf[s] \cup {b} ELSE gf[s]]

backward(gf, g, b, l) ==
    [s \in Subnets |-> IF s \in g /\ l # 0 THEN gf[s] \cup {b} ELSE gf[s]]

\* optimizer.step(): parameters with a populated, nonzero .grad move
step(p, gs, gf) ==
    [s \in Subnets |-> IF s \in gs /\ gf[s] # {} THEN p[s] + 1 ELSE p[s]]

\* line 94: model.train(), the accumulators, entry to the loop
TrainEnter ==
    /\ pc \in Rest /\ model.ok
    /\ op' = "train" /\ pc' = "iter"
    /\ training' = TRUE
    /\ total_loss' = 0 /\ total' = 0
    /\ batch' = NoBatch /\ batchNo' = 0 /\ seen' = << >>
    /\ outputs' = NoOutput /\ graph' = {} /\ loss' = 0
    /\ steps' = 0 /\ lastApplied' = NoGrad
    /\ paramUpdates' = NoUpdates
    /\ gradFrom' = Stale(gradFrom)
    /\ result' = NoResult /\ error' = "" /\ accepted' = {}
    /\ abs_sum' = 0
    /\ UNCHANGED <<init_args, testVars, model, grad_enabled, gradSet>>

\* line 98: the loader delivers the next batch
TrainNextBatch ==
    /\ op = "train" /\ pc = "iter" /\ batchNo < MaxBatches
    /\ \E b \in TrainBatches : batch' = b
    /\ batchNo' = batchNo + 1
    /\ pc' = "forward"
    /\ UNCHANGED <<init_args, accepted, testVars, abs_sum, modelVars, op, seen, outputs,
                   graph, loss, total_loss, total, steps, lastApplied, result, error>>

\* line 101: outputs = model(inputs, extra_params)
TrainForward ==
    /\ op = "train" /\ pc = "forward"
    /\ LET out == forward(model, batch.size, <<batch.size, batch.width>>)
       IN  /\ outputs' = out
           /\ graph' = (IF grad_enabled THEN out.used ELSE {})
           /\ error' = out.err
           /\ pc' = (IF out.ok THEN "loss" ELSE "raised")
    /\ UNCHANGED <<init_args, accepted, testVars, abs_sum, modelVars, op, batch,
                   batchNo, seen, loss, total_loss, total, steps, lastApplied, result>>

\* line 102: loss = criterion(outputs, labels)
TrainLoss ==
    /\ op = "train" /\ pc = "loss"
    /\ loss' = batch.loss
    /\ pc' = "zero_grad"
    /\ UNCHANGED <<init_args, accepted, testVars, abs_sum, modelVars, op, batch,
                   batchNo, seen, outputs, graph, total_loss, total, steps, lastApplied,
                   result, error>>

\* fault: the gradients are never reset
TrainZeroGrad_Mut ==
    /\ op = "train" /\ pc = "zero_grad"
    /\ pc' = "backward"
    /\ UNCHANGED <<init_args, accepted, testVars, abs_sum, model, training,
                   grad_enabled, paramUpdates, gradSet, gradFrom, op, batch, batchNo,
                   seen, outputs, graph, loss, total_loss, total, steps, lastApplied,
                   result, error>>

\* line 104: optimizer.zero_grad()
TrainZeroGrad ==
    /\ op = "train" /\ pc = "zero_grad"
    /\ gradSet' = zero_grad(gradSet)
    /\ gradFrom' = NoGrad
    /\ pc' = "backward"
    /\ UNCHANGED <<init_args, accepted, testVars, abs_sum, model, training,
                   grad_enabled, paramUpdates, op, batch, batchNo, seen, outputs, graph,
                   loss, total_loss, total, steps, lastApplied, result, error>>

\* line 105: loss.backward()
TrainBackward ==
    /\ op = "train" /\ pc = "backward"
    /\ gradSet' = gradSet \cup graph
    /\ gradFrom' = backward(gradFrom, graph, batchNo, loss)
    /\ pc' = "step"
    /\ UNCHANGED <<init_args, accepted, testVars, abs_sum, model, training,
                   grad_enabled, paramUpdates, op, batch, batchNo, seen, outputs, graph,
                   loss, total_loss, total, steps, lastApplied, result, error>>

\* line 106: optimizer.step()
TrainStep ==
    /\ op = "train" /\ pc = "step"
    /\ paramUpdates' = step(paramUpdates, gradSet, gradFrom)
    /\ lastApplied' = [s \in Subnets |-> IF s \in gradSet THEN gradFrom[s] ELSE {}]
    /\ steps' = steps + 1
    /\ pc' = "accumulate"
    /\ UNCHANGED <<init_args, accepted, testVars, abs_sum, model, training,
                   grad_enabled, gradSet, gradFrom, op, batch, batchNo, seen, outputs,
                   graph, loss, total_loss, total, result, error>>

\* fault: total counts batches instead of samples
TrainAccumulate_Mut ==
    /\ op = "train" /\ pc = "accumulate"
    /\ total_loss' = total_loss + loss * batch.size
    /\ total' = total + 1
    /\ seen' = Append(seen, batch)
    /\ pc' = "iter"
    /\ UNCHANGED <<init_args, accepted, testVars, abs_sum, modelVars, op, batch,
                   batchNo, outputs, graph, loss, steps, lastApplied, result, error>>

\* lines 108-109: total_loss += loss.item() * inputs.size(0); total += inputs.size(0)
TrainAccumulate ==
    /\ op = "train" /\ pc = "accumulate"
    /\ total_loss' = total_loss + loss * batch.size
    /\ total' = total + batch.size
    /\ seen' = Append(seen, batch)
    /\ pc' = "iter"
    /\ UNCHANGED <<init_args, accepted, testVars, abs_sum, modelVars, op, batch,
                   batchNo, outputs, graph, loss, steps, lastApplied, result, error>>

\* lines 110-111: the loader is exhausted; avg_loss = total_loss / total
TrainReturn ==
    /\ op = "train" /\ pc = "iter"
    /\ IF total = 0
       THEN /\ error' = "ZeroDivisionError" /\ pc' = "raised" /\ result' = NoResult
       ELSE /\ result' = Quot(total_loss, total) /\ pc' = "returned" /\ error' = error
    /\ UNCHANGED <<init_args, accepted, testVars, abs_sum, modelVars, op, batch,
                   batchNo, seen, outputs, graph, loss, total_loss, total, steps,
                   lastApplied>>

Train == \/ TrainEnter \/ TrainNextBatch \/ TrainForward \/ TrainLoss \/ TrainZeroGrad
         \/ TrainBackward \/ TrainStep \/ TrainAccumulate \/ TrainReturn

\* -------------------------------------------------------------- validate
\* lines 115-121: model.eval(), the accumulators, entry to torch.no_grad()
ValidateEnter ==
    /\ pc \in Rest /\ model.ok
    /\ op' = "validate" /\ pc' = "iter"
    /\ training' = FALSE
    /\ grad_enabled' = FALSE
    /\ total_loss' = 0 /\ total' = 0 /\ abs_sum' = 0
    /\ batch' = NoBatch /\ batchNo' = 0 /\ seen' = << >>
    /\ outputs' = NoOutput /\ graph' = {} /\ loss' = 0
    /\ steps' = 0 /\ lastApplied' = NoGrad
    /\ paramUpdates' = NoUpdates
    /\ result' = NoResult /\ error' = "" /\ accepted' = {}
    /\ gradFrom' = Stale(gradFrom)
    /\ UNCHANGED <<init_args, testVars, model, gradSet>>

\* line 122: the loader delivers the next batch
ValidateNextBatch ==
    /\ op = "validate" /\ pc = "iter" /\ batchNo < MaxBatches
    /\ \E b \in ValBatches : batch' = b
    /\ batchNo' = batchNo + 1
    /\ pc' = "forward"
    /\ UNCHANGED <<init_args, accepted, testVars, modelVars, op, seen, outputs, graph,
                   loss, total_loss, total, abs_sum, steps, lastApplied, result, error>>

\* line 125: outputs = model(inputs, extra_params); an exception leaves no_grad
ValidateForward ==
    /\ op = "validate" /\ pc = "forward"
    /\ LET out == forward(model, batch.size, <<batch.size, batch.width>>)
       IN  /\ outputs' = out
           /\ graph' = (IF grad_enabled THEN out.used ELSE {})
           /\ error' = out.err
           /\ pc' = (IF out.ok THEN "accumulate" ELSE "raised")
           /\ grad_enabled' = (IF out.ok THEN grad_enabled ELSE TRUE)
    /\ UNCHANGED <<init_args, accepted, testVars, model, training, paramUpdates,
                   gradSet, gradFrom, op, batch, batchNo, seen, loss, total_loss, total,
                   abs_sum, steps, lastApplied, result>>

\* fault: the validation loop propagates the loss and steps the optimizer
ValidateAccumulate_Mut ==
    /\ op = "validate" /\ pc = "accumulate"
    /\ loss' = batch.loss
    /\ total_loss' = total_loss + batch.loss * batch.size
    /\ total' = total + batch.size
    /\ abs_sum' = abs_sum + batch.abs_err
    /\ seen' = Append(seen, batch)
    /\ pc' = "iter"
    /\ gradSet' = outputs.used
    /\ gradFrom' = backward(NoGrad, outputs.used, batchNo, batch.loss)
    /\ paramUpdates' = step(paramUpdates, gradSet', gradFrom')
    /\ steps' = steps + 1
    /\ UNCHANGED <<init_args, accepted, testVars, model, training, grad_enabled, op,
                   batch, batchNo, outputs, graph, lastApplied, result, error>>

\* lines 126-132: the loss, the accumulators, the collected labels and outputs
ValidateAccumulate ==
    /\ op = "validate" /\ pc = "accumulate"
    /\ loss' = batch.loss
    /\ total_loss' = total_loss + batch.loss * batch.size
    /\ total' = total + batch.size
    /\ abs_sum' = abs_sum + batch.abs_err
    /\ seen' = Append(seen, batch)
    /\ pc' = "iter"
    /\ UNCHANGED <<init_args, accepted, testVars, modelVars, op, batch, batchNo,
                   outputs, graph, steps, lastApplied, result, error>>

\* lines 133-135: the loader is exhausted; leaves no_grad, returns (avg_loss, mae)
ValidateReturn ==
    /\ op = "validate" /\ pc = "iter"
    /\ grad_enabled' = TRUE
    /\ IF total = 0
       THEN /\ error' = "ZeroDivisionError" /\ pc' = "raised" /\ result' = NoResult
       ELSE /\ result' = <<Quot(total_loss, total), Quot(abs_sum, total)>>
            /\ pc' = "returned" /\ error' = error
    /\ UNCHANGED <<init_args, accepted, testVars, model, training, paramUpdates,
                   gradSet, gradFrom, op, batch, batchNo, seen, outputs, graph, loss,
                   total_loss, total, abs_sum, steps, lastApplied>>

Validate == \/ ValidateEnter \/ ValidateNextBatch \/ ValidateForward
            \/ ValidateAccumulate \/ ValidateReturn

\* ------------------------------------------------------------------ test
Targets == {"mag", "dep", "lon", "lat"}

Ids == {"A", "B"}

\* model outputs pred.item(), in units of 10^-4: 5.04, 6.15, 121.5546
PredValues == {50400, 61500, 1215546}

\* the rows of Earthquake.csv, in units of 10^-4
EarthquakeCsv(name, column) ==
    IF name = "A"
    THEN (IF column = "Mag" THEN 50000 ELSE IF column = "Depth" THEN 100000
          ELSE IF column = "Lon" THEN 1215500 ELSE 238000)
    ELSE (IF column = "Mag" THEN 62000 ELSE IF column = "Depth" THEN 253000
          ELSE IF column = "Lon" THEN 1200127 ELSE 245678)

\* the column of Earthquake.csv read for a target (label_mag, label_dep, ...)
Column(t) == IF t = "mag" THEN "Mag" ELSE IF t = "dep" THEN "Depth"
             ELSE IF t = "lon" THEN "Lon" ELSE "Lat"

\* the key of the ground truth in a row, and the middle field of the header
Field(t) == IF t = "mag" THEN "Mag" ELSE IF t = "dep" THEN "Dep"
            ELSE IF t = "lon" THEN "Lon" ELSE "Lat"

fieldnames(t) == <<"id", Field(t), "prediction">>

\* label_x[name]: a dictionary subscript
\* fault: label_x.get(name, 0) instead of the subscript
Lookup_Mut(keys, name, t) ==
    IF name \in keys THEN [ok |-> TRUE, value |-> EarthquakeCsv(name, Column(t))]
    ELSE [ok |-> TRUE, value |-> 0]

Lookup(keys, name, t) ==
    IF name \in keys THEN [ok |-> TRUE, value |-> EarthquakeCsv(name, Column(t))]
    ELSE [ok |-> FALSE, value |-> 0]

RECURSIVE Pow10(_)
Pow10(n) == IF n = 0 THEN 1 ELSE 10 * Pow10(n - 1)

Abs(x) == IF x < 0 THEN 0 - x ELSE x

\* the multiple of unit nearest to num / den, ties to the even multiple
RoundRat(num, den, unit) ==
    LET d == den * unit
        q == num \div d
        r == num - q * d
    IN  IF 2 * r < d THEN q * unit
        ELSE IF 2 * r > d THEN (q + 1) * unit
        ELSE IF q % 2 = 0 THEN q * unit ELSE (q + 1) * unit

\* round(x, ndigits) on a value in units of 10^-4
round(x, ndigits) == RoundRat(x, 1, Pow10(4 - ndigits))

\* decimals of the prediction recorded in the row
RowDigits(t) == IF t = "mag" \/ t = "dep" THEN 1 ELSE 3

\* fault: y_pred rounded like the row
ErrDigits_Mut(t) == IF t = "mag" \/ t = "dep" THEN 1 ELSE 3

\* decimals of the prediction appended to y_pred
ErrDigits(t) == IF t = "mag" \/ t = "dep" THEN 1 ELSE 2

RECURSIVE SumAbsDiff(_, _)
SumAbsDiff(a, b) ==
    IF a = << >> THEN 0 ELSE Abs(a[1] - b[1]) + SumAbsDiff(Tail(a), Tail(b))

\* round(mean_absolute_error(y_true, y_pred), 3)
RoundedMAE(yt, yp) == RoundRat(SumAbsDiff(yt, yp), Len(yt), Pow10(4 - 3))

\* fault: the output file is opened before the loop
TestEnter_Mut ==
    /\ op = "init" /\ pc = "returned" /\ model.ok
    /\ \E t \in Targets, keys \in SUBSET Ids :
         /\ target' = t
         /\ ref_keys' = keys
         /\ file' = [exists |-> TRUE, name |-> <<t>>, header |-> << >>, rows |-> << >>]
    /\ op' = "test" /\ pc' = "iter"
    /\ training' = FALSE
    /\ grad_enabled' = FALSE
    /\ predictions' = << >> /\ y_true' = << >> /\ y_pred' = << >>
    /\ image_names' = << >> /\ idx' = 0
    /\ sample_ids' = << >> /\ pred_items' = << >>
    /\ batch' = NoBatch /\ batchNo' = 0
    /\ outputs' = NoOutput /\ graph' = {}
    /\ result' = NoResult /\ error' = ""
    /\ UNCHANGED <<init_args, accepted, model, trainLocals>>

\* lines 138-149: model.eval(), the lists, the reference table, torch.no_grad()
TestEnter ==
    /\ op = "init" /\ pc = "returned" /\ model.ok
    /\ \E t \in Targets, keys \in SUBSET Ids :
         /\ target' = t
         /\ ref_keys' = keys
    /\ op' = "test" /\ pc' = "iter"
    /\ training' = FALSE
    /\ grad_enabled' = FALSE
    /\ predictions' = << >> /\ y_true' = << >> /\ y_pred' = << >>
    /\ image_names' = << >> /\ idx' = 0
    /\ sample_ids' = << >> /\ pred_items' = << >>
    /\ batch' = NoBatch /\ batchNo' = 0
    /\ outputs' = NoOutput /\ graph' = {}
    /\ result' = NoResult /\ error' = ""
    /\ UNCHANGED <<init_args, accepted, model, trainLocals, file>>

\* line 150: the loader delivers the next (images, image_names, extra_params)
TestNextBatch ==
    /\ op = "test" /\ pc = "iter" /\ batchNo < MaxBatches
    /\ \E n \in 1..MaxBatchSize, w \in Widths :
         /\ Len(predictions) + n <= MaxTestSamples
         /\ \E names \in [1..n -> Ids] :
              /\ image_names' = names
              /\ sample_ids' = sample_ids \o names
         /\ batch' = [size |-> n, width |-> w, loss |-> 0, abs_err |-> 0]
    /\ batchNo' = batchNo + 1
    /\ idx' = 0
    /\ pc' = "forward"
    /\ UNCHANGED <<init_args, accepted, pred_items, model, training, grad_enabled,
                   trainLocals, op, outputs, graph, result, error, target, ref_keys,
                   predictions, y_true, y_pred, file>>

\* line 152: outputs = model(images, extra_params); an exception leaves no_grad
TestForward ==
    /\ op = "test" /\ pc = "forward"
    /\ LET out == forward(model, batch.size, <<batch.size, batch.width>>)
       IN  /\ outputs' = out
           /\ graph' = (IF grad_enabled THEN out.used ELSE {})
           /\ error' = out.err
           /\ pc' = (IF out.ok THEN "zip" ELSE "raised")
           /\ grad_enabled' = (IF out.ok THEN grad_enabled ELSE TRUE)
    /\ idx' = 1
    /\ UNCHANGED <<init_args, accepted, sample_ids, pred_items, model, training,
                   trainLocals, op, batch, batchNo, result, target, ref_keys,
                   image_names, predictions, y_true, y_pred, file>>

\* lines 156-172: one iteration of the loop over zip(image_names, predicted)
TestSample ==
    /\ op = "test" /\ pc = "zip"
    /\ idx <= Len(image_names) /\ idx <= outputs.shape[1]
    /\ \E pred \in PredValues :
         LET name  == image_names[idx]
             truth == Lookup(ref_keys, name, target)
         IN  IF truth.ok
             THEN /\ predictions' = Append(predictions,
                        [id |-> name, key |-> Field(target), truth |-> truth.value,
                         prediction |-> round(pred, RowDigits(target))])
                  /\ y_true' = Append(y_true, truth.value)
                  /\ y_pred' = Append(y_pred, round(pred, ErrDigits(target)))
                  /\ idx' = idx + 1
                  /\ pred_items' = Append(pred_items, pred)
                  /\ UNCHANGED <<pc, error, grad_enabled>>
             ELSE /\ error' = "KeyError"
                  /\ pc' = "raised"
                  /\ grad_enabled' = TRUE
                  /\ UNCHANGED <<predictions, y_true, y_pred, idx, pred_items>>
    /\ UNCHANGED <<init_args, accepted, sample_ids, model, training, trainLocals, op,
                   batch, batchNo, outputs, graph, result, target, ref_keys,
                   image_names, file>>

\* the zip is exhausted: back to the loader
TestBatchDone ==
    /\ op = "test" /\ pc = "zip"
    /\ ~(idx <= Len(image_names) /\ idx <= outputs.shape[1])
    /\ pc' = "iter"
    /\ UNCHANGED <<init_args, accepted, sample_ids, pred_items, model, training,
                   grad_enabled, trainLocals, op, batch, batchNo, outputs, graph,
                   result, error, target, ref_keys, image_names, idx, predictions,
                   y_true, y_pred, file>>

\* line 173: the loader is exhausted; leaves no_grad; MAE = round(..., 3)
TestMAE ==
    /\ op = "test" /\ pc = "iter"
    /\ grad_enabled' = TRUE
    /\ IF y_true = << >>
       THEN /\ error' = "ValueError: Found array with 0 sample(s)"
            /\ pc' = "raised" /\ result' = NoResult
       ELSE /\ result' = <<RoundedMAE(y_true, y_pred)>>
            /\ pc' = "open" /\ error' = error
    /\ UNCHANGED <<init_args, accepted, sample_ids, pred_items, model, training,
                   trainLocals, op, batch, batchNo, outputs, graph, target, ref_keys,
                   image_names, idx, predictions, y_true, y_pred, file>>

\* line 174: open(f'Prediction({target}) - MAE = {MAE}.csv', mode = 'w')
TestOpen ==
    /\ op = "test" /\ pc = "open"
    /\ file' = [exists |-> TRUE, name |-> <<target, result[1]>>, header |-> << >>,
                rows |-> << >>]
    /\ idx' = 1
    /\ pc' = "header"
    /\ UNCHANGED <<init_args, accepted, sample_ids, pred_items, model, training,
                   grad_enabled, trainLocals, op, batch, batchNo, outputs, graph,
                   result, error, target, ref_keys, image_names, predictions, y_true,
                   y_pred>>

\* lines 175-184: the field names of the target, writer.writeheader()
TestWriteHeader ==
    /\ op = "test" /\ pc = "header"
    /\ file' = [file EXCEPT !.header = fieldnames(target)]
    /\ pc' = "rows"
    /\ UNCHANGED <<init_args, accepted, sample_ids, pred_items, model, training,
                   grad_enabled, trainLocals, op, batch, batchNo, outputs, graph,
                   result, error, target, ref_keys, image_names, idx, predictions,
                   y_true, y_pred>>

\* lines 185-186: writer.writerow(row)
TestWriteRow ==
    /\ op = "test" /\ pc = "rows" /\ idx <= Len(predictions)
    /\ LET row == predictions[idx]
       IN  IF row.key = file.header[2]
           THEN /\ file' = [file EXCEPT !.rows =
                              Append(@, <<row.id, row.truth, row.prediction>>)]
                /\ idx' = idx + 1
                /\ UNCHANGED <<pc, error>>
           ELSE /\ error' = "ValueError: dict contains fields not in fieldnames"
                /\ pc' = "raised"
                /\ UNCHANGED <<file, idx>>
    /\ UNCHANGED <<init_args, accepted, sample_ids, pred_items, model, training,
                   grad_enabled, trainLocals, op, batch, batchNo, outputs, graph,
                   result, target, ref_keys, image_names, predictions, y_true, y_pred>>

\* lines 187-188: the file is closed, return MAE
TestReturn ==
    /\ op = "test" /\ pc = "rows" /\ idx > Len(predictions)
    /\ pc' = "returned"
    /\ UNCHANGED <<init_args, accepted, sample_ids, pred_items, model, training,
                   grad_enabled, trainLocals, op, batch, batchNo, outputs, graph,
                   result, error, target, ref_keys, image_names, idx, predictions,
                   y_true, y_pred, file>>

Test == \/ TestEnter \/ TestNextBatch \/ TestForward \/ TestSample \/ TestBatchDone
        \/ TestMAE \/ TestOpen \/ TestWriteHeader \/ TestWriteRow \/ TestReturn

\* ------------------------------------------------------- specifications
\* construction, direct inference calls, and calls of train and validate
Next == Construct \/ Forward \/ Train \/ Validate

Spec == Init /\ [][Next]_vars

\* construction followed by one call of test
NextTest == Construct \/ Test

SpecTest == Init /\ [][NextTest]_vars

\* ================================================================ claims
RequiredError == "ValueError: extra_params is required but not provided."

ShapeError == "ValueError: error - extra_params shape"

\* C1: with auxiliary parameters enabled, a call of the model without an
\* auxiliary vector fails with the required-input error, a call with a vector
\* whose width is neither 2 nor 3 fails with the shape error, and a call with
\* width 2 or 3 succeeds with an output of shape (B): one scalar per sample.
C1_ForwardContract ==
    (op = "forward" /\ model.use_extra_params) =>
        /\ (batch.width = 0 => ~outputs.ok /\ outputs.err = RequiredError)
        /\ (batch.width \notin {0, 2, 3} => ~outputs.ok /\ outputs.err = ShapeError)
        /\ (batch.width \in {2, 3} => outputs.ok /\ outputs.shape = <<batch.size>>)
        /\ (pc = "raised") = ~outputs.ok

C1_Witness ==
    /\ op = "forward" /\ model.use_extra_params /\ pc = "returned"
    /\ batch.width = 3 /\ batch.size = MaxBatchSize /\ outputs.shape = <<MaxBatchSize>>

\* C2: during a call of validate no trainable parameter is updated, the
\* optimizer never steps, no autograd graph is built and no gradient is
\* propagated into any .grad buffer.
C2_ValidateFrame ==
    op = "validate" =>
        /\ paramUpdates = NoUpdates
        /\ steps = 0
        /\ graph = {}
        /\ \A s \in Subnets : gradFrom[s] \subseteq {0}

C2_Witness ==
    /\ op = "validate" /\ pc = "returned" /\ Len(seen) = MaxBatches
    /\ gradSet # {} /\ seen[1].loss # 0

\* sub-network s takes part in the forward pass of batch b
Participates(s, b) ==
    \/ s \in {"feature_extractor", "reduce", "fc1", "fc2"}
    \/ model.use_extra_params /\ s = "param_fc_2" /\ b.width = 2
    \/ model.use_extra_params /\ s = "param_fc_3" /\ b.width = 3

\* C3 (as stated): after a call of train over a non-empty loader whose losses
\* are all nonzero, the parameters of every sub-network created at
\* construction have changed, both auxiliary encoders included.
C3_Original ==
    (op = "train" /\ pc = "returned" /\ \A i \in 1..Len(seen) : seen[i].loss # 0) =>
        \A s \in model.modules : paramUpdates[s] > 0

\* C3 (amended): after a call of train over a non-empty loader, the parameters
\* of a sub-network have changed exactly when it took part in the forward pass
\* of a batch with nonzero loss: the backbone, the reduction layer and the head
\* take part in every batch, an auxiliary encoder only in batches of its width.
C3_Amended ==
    (op = "train" /\ pc = "returned") =>
        \A s \in Subnets :
            paramUpdates[s] =
                Cardinality({i \in 1..Len(seen) :
                                seen[i].loss # 0 /\ Participates(s, seen[i])})

C3_Witness ==
    /\ op = "train" /\ pc = "returned" /\ model.use_extra_params
    /\ Len(seen) = MaxBatches
    /\ \A i \in 1..Len(seen) : seen[i].loss # 0 /\ seen[i].width = 2
    /\ paramUpdates["param_fc_2"] = MaxBatches /\ paramUpdates["param_fc_3"] = 0

\* C4 (as stated): one constructed model never accepts both a width-2 and a
\* width-3 auxiliary vector.
C4_Original == Cardinality(accepted) <= 1

\* C4 (amended): a model built with auxiliary parameters enabled holds both
\* encoder variants, and each call selects the variant by the width of the
\* vector passed: width 2 runs param_fc_2 only, width 3 runs param_fc_3 only,
\* and the same model accepts both; only widths other than 2 and 3 fail.
C4_Amended ==
    (model.ok /\ model.use_extra_params) =>
        /\ {"param_fc_2", "param_fc_3"} \subseteq model.modules
        /\ accepted \subseteq {2, 3}
        /\ op = "forward" =>
            /\ batch.width = 2 =>
                 outputs.ok /\ outputs.used \cap {"param_fc_2", "param_fc_3"} = {"param_fc_2"}
            /\ batch.width = 3 =>
                 outputs.ok /\ outputs.used \cap {"param_fc_2", "param_fc_3"} = {"param_fc_3"}
            /\ outputs.ok => batch.width \in accepted

C4_Witness ==
    /\ op = "forward" /\ pc = "returned" /\ model.use_extra_params
    /\ accepted = {2, 3}

RECURSIVE WeightedLoss(_)
WeightedLoss(bs) ==
    IF bs = << >> THEN 0 ELSE bs[1].loss * bs[1].size + WeightedLoss(Tail(bs))

RECURSIVE Samples(_)
Samples(bs) == IF bs = << >> THEN 0 ELSE bs[1].size + Samples(Tail(bs))

\* C5: train passes once over the batches the loader delivers and returns
\* (sum of l_i * n_i) / (sum of n_i) over the batches of the pass.
C5_WeightedMean ==
    (op = "train" /\ pc = "returned") =>
        /\ Len(seen) = batchNo
        /\ Samples(seen) > 0
        /\ result[1] * Samples(seen) = result[2] * WeightedLoss(seen)
        /\ result = Quot(WeightedLoss(seen), Samples(seen))

C5_Witness ==
    /\ op = "train" /\ pc = "returned" /\ Len(seen) = MaxBatches
    /\ seen[1].size # seen[2].size /\ seen[1].loss # seen[2].loss
    /\ seen[1].loss # 0 /\ seen[2].loss # 0

\* the rows collected for the samples of the current batch already passed
RowsOfBatch == SubSeq(predictions, Len(predictions) - (idx - 1) + 1, Len(predictions))

\* C6: the test loop ends with a lookup error at the first sample whose
\* identifier is absent from the reference table; no sample is passed over
\* without a row, and no row carries a substituted ground truth.
C6_LookupError ==
    op = "test" =>
        /\ \A i \in 1..Len(predictions) :
              /\ predictions[i].id \in ref_keys
              /\ predictions[i].truth = EarthquakeCsv(predictions[i].id, Column(target))
              /\ y_true[i] = predictions[i].truth
        /\ pc = "zip" =>
              /\ Len(predictions) >= idx - 1
              /\ \A j \in 1..(idx - 1) :
                    image_names[j] \in ref_keys /\ RowsOfBatch[j].id = image_names[j]
        /\ (pc = "raised" /\ idx >= 1 /\ outputs.ok) =>
              error = "KeyError" /\ image_names[idx] \notin ref_keys
        /\ pc \in {"open", "header", "rows", "returned"} =>
              \A j \in 1..Len(sample_ids) : sample_ids[j] \in ref_keys

C6_Witness ==
    /\ op = "test" /\ pc = "raised" /\ error = "KeyError" /\ target = "lon"
    /\ Len(predictions) >= 1 /\ image_names[idx] \notin ref_keys

\* r is x rounded to a multiple of unit (x = num / den)
IsRounded(r, num, den, unit) ==
    /\ r % unit = 0
    /\ 2 * Abs(den * r - num) <= den * unit

\* C7: for mag and dep the row and the error list both hold the model output
\* rounded to 1 decimal; for lon and lat the row holds it rounded to 3
\* decimals and the error list rounded to 2; the returned aggregate is the mean
\* absolute error of the (ground truth, rounded prediction) pairs rounded to 3
\* decimals.  Reference {A: 5.0, B: 6.2} with outputs 5.04, 6.15 gives the rows
\* (A, 5.0, 5.0) and (B, 6.2, 6.2).
C7_Rounding ==
    op = "test" =>
        /\ Len(pred_items) = Len(predictions) /\ Len(y_pred) = Len(predictions)
        /\ \A i \in 1..Len(predictions) :
              IF target \in {"mag", "dep"}
              THEN /\ IsRounded(predictions[i].prediction, pred_items[i], 1, 1000)
                   /\ y_pred[i] = predictions[i].prediction
              ELSE /\ IsRounded(predictions[i].prediction, pred_items[i], 1, 10)
                   /\ IsRounded(y_pred[i], pred_items[i], 1, 100)
        /\ pc \in {"open", "header", "rows", "returned"} =>
              IsRounded(result[1], SumAbsDiff(y_true, y_pred), Len(y_true), 10)
        /\ pc = "returned" =>
              \A i \in 1..Len(predictions) : file.rows[i][3] = predictions[i].prediction
        /\ (pc = "returned" /\ target = "mag" /\ sample_ids = <<"A", "B">>
                /\ pred_items = <<50400, 61500>>) =>
              /\ file.rows = << <<"A", 50000, 50000>>, <<"B", 62000, 62000>> >>
              /\ result = <<0>>

C7_Witness ==
    /\ op = "test" /\ pc = "returned" /\ target = "lon"
    /\ Len(predictions) = MaxTestSamples
    /\ pred_items[1] = 1215546
    /\ predictions[1].prediction = 1215550 /\ y_pred[1] = 1215500

\* C8: construction with a backbone name outside {resnet18, efficientnet_b0,
\* simple_cnn} fails with the configuration error and leaves no model; with a
\* supported name it succeeds with embedding dimension 512, 1280 or 64,
\* whatever use_extra_params is.
C8_Construct ==
    init_args # << >> =>
        LET model_type == init_args[1]
        IN  /\ model_type \notin BackboneNames =>
                /\ ~model.ok /\ model = NoModel
                /\ op = "init" /\ pc = "raised"
                /\ error = "ValueError: Unsupported model type"
            /\ model_type \in BackboneNames =>
                /\ model.ok /\ model.model_type = model_type
                /\ model.use_extra_params = init_args[2]
                /\ model_type = "resnet18" => model.feature_dim = 512
                /\ model_type = "efficientnet_b0" => model.feature_dim = 1280
                /\ model_type = "simple_cnn" => model.feature_dim = 64
                /\ op = "init" => pc = "returned"

C8_Witness ==
    /\ op = "init" /\ pc = "raised" /\ init_args = <<"vgg16", TRUE>>
    /\ error = "ValueError: Unsupported model type"

\* C9 (as stated): each batch is processed as prediction, loss, gradient
\* propagation, one optimizer step, gradient reset, so the gradients are
\* already reset when the prediction of the next batch is computed.
C9_Original ==
    (op = "train" /\ pc = "forward" /\ batchNo >= 2) => gradSet = {}

\* C9 (amended): each batch is processed as prediction, loss, gradient reset,
\* gradient propagation, one optimizer step; the number of optimizer steps
\* equals the number of batches, and each step applies gradients of the
\* current batch only.  The gradients of a batch stay in place until the reset
\* of the next batch, and those of the last batch after the call.
C9_Amended ==
    op = "train" =>
        /\ pc \in {"forward", "loss", "zero_grad", "backward", "step"} =>
              steps = batchNo - 1
        /\ pc \in {"accumulate", "iter", "returned"} => steps = batchNo
        /\ pc = "backward" => gradSet = {} /\ gradFrom = NoGrad
        /\ pc = "step" =>
              gradSet = graph /\ \A s \in Subnets : gradFrom[s] \subseteq {batchNo}
        /\ pc = "accumulate" =>
              \A s \in Subnets : lastApplied[s] \subseteq {batchNo}
        /\ (pc \in {"forward", "loss", "zero_grad"} /\ batchNo >= 2) =>
              gradSet # {}
        /\ (pc = "returned") => gradSet # {}

C9_Witness ==
    /\ op = "train" /\ pc = "accumulate" /\ batchNo = MaxBatches /\ steps = MaxBatches
    /\ lastApplied["fc1"] = {batchNo}
    /\ seen # << >> /\ seen[1].loss # 0

\* the test call has ended with an exception
TestFailed == op = "test" /\ pc = "raised"

\* C10: the output file is created only after every sample was predicted and
\* looked up: a test call that fails leaves no file, and a call that succeeds
\* leaves the header and one row per delivered sample, in loader order.
C10_AllOrNothing ==
    op = "test" =>
        /\ (TestFailed \/ pc \in {"iter", "forward", "zip", "open"}) => file = NoFile
        /\ pc = "returned" =>
              /\ file.exists
              /\ file.name = <<target, result[1]>>
              /\ file.header = <<"id", Field(target), "prediction">>
              /\ Len(file.rows) = Len(sample_ids)
              /\ \A i \in 1..Len(sample_ids) : file.rows[i][1] = sample_ids[i]

C10_Witness ==
    /\ TestFailed /\ error = ShapeError /\ Len(predictions) >= 1 /\ file = NoFile

====
